---- MODULE Spec2Model ----
(***************************************************************************)
(* State-machine model of sharepoint_excel_manager.SharePointClient:       *)
(* the three token acquisition flows, site resolution against Microsoft    *)
(* Graph, the connection test and the file operations.                     *)
(***************************************************************************)
EXTENDS Integers, Sequences, FiniteSets, TLC

(***************************************************************************)
(* Bounds of the model                                                     *)
(***************************************************************************)
\* number of distinct bearer tokens the identity platform can hand out
MaxToken == 2
\* number of distinct site identifiers the directory service can return
MaxSiteId == 1
\* number of distinct file contents
MaxContent == 2

(***************************************************************************)
(* Values                                                                  *)
(***************************************************************************)
\* Python None for access_token and for a site identifier
None == 0
Tokens == 1..MaxToken
SiteIds == 1..MaxSiteId

HTTP_OK == 200
HTTP_CREATED == 201
\* a status other than 200 and 201, standing for every error status
ErrorStatuses == {404}
\* statuses the site lookup of the directory service answers with
LookupStatuses == {HTTP_OK} \cup ErrorStatuses

\* site_url = None
NoUrl == [netloc |-> "None", path |-> <<>>]
\* URLs a caller passes; path is the sequence of the path's characters,
\* a name standing for a run of characters other than '/'
Paths == { <<"/", "sites", "/", "team">>, <<"/", "sites", "/", "team", "/">> }
Urls == { [netloc |-> "contoso.sharepoint.com", path |-> p] : p \in Paths }

\* str.strip('/'): drop leading and trailing '/' characters
RECURSIVE LStrip(_)
LStrip(s) == IF s # <<>> /\ Head(s) = "/" THEN LStrip(Tail(s)) ELSE s
RECURSIVE RStrip(_)
RStrip(s) == IF s # <<>> /\ s[Len(s)] = "/"
             THEN RStrip(SubSeq(s, 1, Len(s) - 1)) ELSE s
Strip(s) == RStrip(LStrip(s))

\* the sites/{hostname}:/{site_path} address the lookup request is sent to
GraphUrl(site_url) == [hostname |-> site_url.netloc, site_path |-> Strip(site_url.path)]
GraphUrls == { GraphUrl(u) : u \in Urls }

(***************************************************************************)
(* Outcomes of the identity SDK and of the directory service               *)
(***************************************************************************)
\* app.get_accounts(): a non-empty list, an empty list, or an exception
AccountsOutcomes == { [kind |-> k, val |-> None] : k \in {"accounts", "empty", "raise"} }
\* acquire_token_*: a result with "access_token", a result with
\* "error_description" only, None, or an exception
TokenOutcomes == { [kind |-> "token", val |-> t] : t \in Tokens }
                 \cup { [kind |-> k, val |-> None] : k \in {"error", "null", "raise"} }
\* app.initiate_device_flow(): a flow with user_code and message, a result
\* without user_code, or an exception
FlowOutcomes == { [kind |-> k, val |-> None] : k \in {"flow", "no_user_code", "raise"} }
\* requests.get on the site address: a response (status; the "id" of its
\* JSON body, None when the body carries none) or a transport exception
SiteResponses == { [kind |-> "response", status |-> HTTP_OK, id |-> i] : i \in SiteIds \cup {None} }
                 \cup { [kind |-> "response", status |-> s, id |-> None] :
                          s \in LookupStatuses \ {HTTP_OK} }
                 \cup { [kind |-> "raise", status |-> 0, id |-> None] }

\* contents of a file; None is a path with no file
Contents == 1..MaxContent

\* folder_path arguments, as character sequences like the URL paths
Folders == { <<>>, <<"/", "Docs", "/">> }

\* str.lower() of one character, and of a string
LowerChar(ch) ==
  CASE ch = "X" -> "x" [] ch = "L" -> "l" [] ch = "S" -> "s" [] ch = "M" -> "m"
    [] OTHER -> ch
Lower(s) == [k \in 1..Len(s) |-> LowerChar(s[k])]
\* str.endswith(suffix)
EndsWith(s, suffix) ==
  /\ Len(suffix) <= Len(s)
  /\ SubSeq(s, Len(s) - Len(suffix) + 1, Len(s)) = suffix
ExcelExtensions == { <<".", "x", "l", "s", "x">>, <<".", "x", "l", "s", "m">>, <<".", "x", "l", "s">> }

\* one drive item of a children listing: file is the "file" facet ("absent"
\* for a folder, "empty" for {}, "facet" for a non-empty one); webUrl, id and
\* downloadUrl are None when the item carries no such key
Item(name, file, n) ==
  [name |-> name, file |-> file, webUrl |-> n, downloadUrl |-> n, id |-> n,
   lastModifiedDateTime |-> n, size |-> n]
ReportPdf == Item(<<"report", ".", "p", "d", "f">>, "facet", 1)
Q1Xlsx    == Item(<<"Q1", ".", "x", "l", "s", "x">>, "facet", 2)
Q2Xlsm    == Item(<<"Q2", ".", "X", "L", "S", "M">>, "facet", 3)
\* the listings the directory service answers with
Listings == { <<>>, <<ReportPdf, Q1Xlsx, Q2Xlsm>> }
\* more items: a folder with an Excel name, a file whose facet is {}, and a
\* file with an Excel extension in the middle of its name
ArchiveFolder == Item(<<"Archive", ".", "x", "l", "s", "x">>, "absent", 4)
OldXls        == Item(<<"old", ".", "x", "l", "s">>, "empty", 5)
BackupBak     == Item(<<"Q1", ".", "x", "l", "s", "x", ".", "b", "a", "k">>, "facet", 6)
DriveItems == { ReportPdf, Q1Xlsx, Q2Xlsm, ArchiveFolder, OldXls, BackupBak }
\* the longest listing drawn from DriveItems
MaxItems == 2
\* the listings of at most MaxItems items, each item at most once
Drives ==
  { l \in UNION { [1..n -> DriveItems] : n \in 0..MaxItems } :
      \A j, k \in DOMAIN l : j # k => l[j].id # l[k].id }
\* requests.get on a children address of a drive that holds these items
ListingResponses(items) ==
  { [kind |-> "response", status |-> HTTP_OK, value |-> items] }
  \cup { [kind |-> "response", status |-> st, value |-> <<>>] : st \in ErrorStatuses }
  \cup { [kind |-> "raise", status |-> 0, value |-> <<>>] }
\* requests.get on a download URL
DownloadResponses ==
  { [kind |-> "response", status |-> HTTP_OK, content |-> b] : b \in Contents }
  \cup { [kind |-> "response", status |-> st, content |-> None] : st \in ErrorStatuses }
  \cup { [kind |-> "raise", status |-> 0, content |-> None] }
\* requests.put on a content address
UploadResponses ==
  { [kind |-> "response", status |-> st] : st \in {HTTP_OK, HTTP_CREATED} \cup ErrorStatuses }
  \cup { [kind |-> "raise", status |-> 0] }

\* one entry of the log of calls an operation made
Call(f, kind, val) == [f |-> f, kind |-> kind, val |-> val]
Returned(f, b) == Call(f, "return", IF b THEN 1 ELSE 0)

VARIABLES
  access_token,   \* SharePointClient.access_token
  authenticated,  \* SharePointClient.authenticated
  site_url,       \* SharePointClient.site_url
  sites,          \* directory service: answer to the lookup of each site address
  op,             \* the operation called last
  arg,            \* its URL argument
  ret,            \* its boolean return value
  raised,         \* whether it raised to the caller
  site_id,        \* the value _get_site_id_from_url returned last
  calls,          \* the calls the operation made, in order, with their outcomes
  files,          \* the list get_excel_files returned last
  local_file,     \* content of the file at local_path, None when there is none
  repeated,       \* a site lookup that directly follows a lookup of the same URL
  drive,          \* directory service: the children of the document folder
  message,        \* the message of the exception raised to the caller
  settings,       \* SettingsManager._settings
  config_file,    \* the file settings.json of the config directory
  backup_file,    \* the file settings.json.backup next to it
  input,          \* the arguments of the last call on a settings manager
  export_file,    \* the file export_settings writes and import_settings reads
  importer,       \* the settings of a second SettingsManager
  recent,         \* the list get_recent_connections returned last
  status_label,   \* the text of the window's status label
  files_text,     \* the text of the window's files area
  temp_dir,       \* ExcelManager.temp_dir and whether the directory exists
  current_workbook,   \* ExcelManager.current_workbook: the open workbook is
                      \* kept as the descriptor of the file it was loaded from
  current_file_path,  \* ExcelManager.current_file_path
  current_file_info   \* ExcelManager.current_file_info

vars == <<access_token, authenticated, site_url, sites, op, arg, ret, raised,
          site_id, calls, files, local_file, repeated, drive, message,
          settings, config_file, backup_file, input, export_file, importer, recent,
          status_label, files_text,
          temp_dir, current_workbook, current_file_path, current_file_info>>

\* the fields of the client as one record
Client == [access_token |-> access_token, authenticated |-> authenticated,
           site_url |-> site_url]

\* a run that returned r: the try blocks of authenticate,
\* authenticate_device_code and upload_file catch every Exception
Run(c, r, log) == [c |-> c, ret |-> r, calls |-> log, raised |-> FALSE]

(***************************************************************************)
(* SharePointClient.authenticate                                           *)
(***************************************************************************)
\* variant: a token already held is kept
\* variant: only the flag is set
StoreToken_FlagOnly(c, result) == [c EXCEPT !.authenticated = TRUE]
StoreToken_KeepsOld(c, result) ==
  [c EXCEPT !.access_token = IF c.access_token = None THEN result.val ELSE c.access_token,
            !.authenticated = TRUE]

\* self.access_token = result["access_token"]; self.authenticated = True
StoreToken(c, result) == [c EXCEPT !.access_token = result.val, !.authenticated = TRUE]

\* variant: the success branch stores the token and falls through without
\* returning True
AcquireInteractive_NoReturn(c, log, interactive) ==
  LET log2 == Append(log, Call("acquire_token_interactive", interactive.kind, interactive.val))
  IN IF interactive.kind = "token"
     THEN Run(StoreToken(c, interactive), FALSE, log2)
     ELSE Run(c, FALSE, log2)

\* variant: a failed interactive step marks the client unauthenticated
AcquireInteractive_Resets(c, log, interactive) ==
  LET log2 == Append(log, Call("acquire_token_interactive", interactive.kind, interactive.val))
  IN IF interactive.kind = "token"
     THEN Run(StoreToken(c, interactive), TRUE, log2)
     ELSE Run([c EXCEPT !.authenticated = FALSE], FALSE, log2)

\* the interactive step and what follows it; log holds the calls made so far
AcquireInteractive(c, log, interactive) ==
  LET log2 == Append(log, Call("acquire_token_interactive", interactive.kind, interactive.val))
  IN CASE interactive.kind = "token" -> Run(StoreToken(c, interactive), TRUE, log2)
       \* result.get("error_description", ...) and return False
       [] interactive.kind = "error" -> Run(c, FALSE, log2)
       \* None.get raises AttributeError, caught by except Exception
       [] interactive.kind = "null"  -> Run(c, FALSE, log2)
       \* the SDK raised, caught by except Exception
       [] interactive.kind = "raise" -> Run(c, FALSE, log2)

authenticate(c, url, accounts, silent, interactive) ==
  LET c1   == [c EXCEPT !.site_url = url]
      log1 == <<Call("get_accounts", accounts.kind, None)>>
      log2 == Append(log1, Call("acquire_token_silent", silent.kind, silent.val))
  IN CASE accounts.kind = "raise" -> Run(c1, FALSE, log1)
       [] accounts.kind = "empty" -> AcquireInteractive(c1, log1, interactive)
       [] accounts.kind = "accounts" ->
            CASE silent.kind = "raise" -> Run(c1, FALSE, log2)
              [] silent.kind = "token" -> Run(StoreToken(c1, silent), TRUE, log2)
              [] OTHER                 -> AcquireInteractive(c1, log2, interactive)

\* every run of authenticate, over the outcomes of the SDK
AuthenticateRuns(c, url) ==
  { authenticate(c, url, accounts, silent, interactive) :
      accounts \in AccountsOutcomes, silent \in TokenOutcomes, interactive \in TokenOutcomes }

(***************************************************************************)
(* SharePointClient.authenticate_device_code                               *)
(***************************************************************************)
\* variant: a device flow that ends without a token marks the client
\* unauthenticated
authenticate_device_code_Resets(c, url, flow, device) ==
  LET c1   == [c EXCEPT !.site_url = url]
      log1 == <<Call("initiate_device_flow", flow.kind, None)>>
      log2 == Append(log1, Call("acquire_token_by_device_flow", device.kind, device.val))
  IN IF flow.kind # "flow" THEN Run(c1, FALSE, log1)
     ELSE IF device.kind = "token" THEN Run(StoreToken(c1, device), TRUE, log2)
     ELSE Run([c1 EXCEPT !.authenticated = FALSE], FALSE, log2)

\* variant: the user_code check is missing, the token step is called anyway
authenticate_device_code_NoCheck(c, url, flow, device) ==
  LET c1   == [c EXCEPT !.site_url = url]
      log1 == <<Call("initiate_device_flow", flow.kind, None)>>
      log2 == Append(log1, Call("acquire_token_by_device_flow", device.kind, device.val))
  IN IF flow.kind = "raise" THEN Run(c1, FALSE, log1)
     ELSE IF device.kind = "token" THEN Run(StoreToken(c1, device), TRUE, log2)
     ELSE Run(c1, FALSE, log2)

\* variant: the exceptions of the token request are not caught
authenticate_device_code_Unguarded(c, url, flow, device) ==
  LET c1   == [c EXCEPT !.site_url = url]
      log1 == <<Call("initiate_device_flow", flow.kind, None)>>
      log2 == Append(log1, Call("acquire_token_by_device_flow", device.kind, device.val))
  IN CASE flow.kind = "raise"        -> Run(c1, FALSE, log1)
       [] flow.kind = "no_user_code" -> Run(c1, FALSE, log1)
       [] flow.kind = "flow" ->
            CASE device.kind = "token" -> Run(StoreToken(c1, device), TRUE, log2)
              [] device.kind = "error" -> Run(c1, FALSE, log2)
              [] OTHER -> [c |-> c1, ret |-> FALSE, calls |-> log2, raised |-> TRUE]

authenticate_device_code(c, url, flow, device) ==
  LET c1   == [c EXCEPT !.site_url = url]
      log1 == <<Call("initiate_device_flow", flow.kind, None)>>
      log2 == Append(log1, Call("acquire_token_by_device_flow", device.kind, device.val))
  IN CASE flow.kind = "raise"        -> Run(c1, FALSE, log1)
       \* raise Exception("Failed to create device flow")
       [] flow.kind = "no_user_code" -> Run(c1, FALSE, log1)
       [] flow.kind = "flow" ->
            CASE device.kind = "token" -> Run(StoreToken(c1, device), TRUE, log2)
              [] OTHER                 -> Run(c1, FALSE, log2)

\* every run of authenticate_device_code, over the outcomes of the SDK
AuthenticateDeviceCodeRuns(c, url) ==
  { authenticate_device_code(c, url, flow, device) :
      flow \in FlowOutcomes, device \in TokenOutcomes }

(***************************************************************************)
(* SharePointClient._get_site_id_from_url                                  *)
(***************************************************************************)
\* the value returned for the answer of the directory service
SiteIdOf(response) ==
  IF response.kind = "raise" THEN None
  ELSE IF response.status = HTTP_OK THEN response.id
  ELSE None

\* variant: a failed request is sent a second time
LookupCalls_Retry(response) ==
  IF response.kind = "response" /\ response.status = HTTP_OK
  THEN << Call("requests.get site", response.kind, response.status),
          Call("_get_site_id_from_url", "return", SiteIdOf(response)) >>
  ELSE << Call("requests.get site", response.kind, response.status),
          Call("requests.get site", response.kind, response.status),
          Call("_get_site_id_from_url", "return", SiteIdOf(response)) >>

\* one requests.get on the site address, logged with its outcome
LookupCalls(response) ==
  << Call("requests.get site", response.kind, response.status),
     Call("_get_site_id_from_url", "return", SiteIdOf(response)) >>

\* variant: the looked-up URL is remembered in self.site_url
_get_site_id_from_url_Remembers(c, url, srv) ==
  [c |-> [c EXCEPT !.site_url = url], id |-> SiteIdOf(srv[GraphUrl(url)]),
   calls |-> LookupCalls(srv[GraphUrl(url)])]

\* srv is the directory service; the client is read (Authorization header)
\* and not written
_get_site_id_from_url(c, url, srv) ==
  [c |-> c, id |-> SiteIdOf(srv[GraphUrl(url)]), calls |-> LookupCalls(srv[GraphUrl(url)])]

(***************************************************************************)
(* SharePointClient.test_connection                                        *)
(***************************************************************************)
\* variant: the identifier is not tested
ResolveAndReport_Unchecked(c, url, srv, log) ==
  LET l == _get_site_id_from_url(c, url, srv)
  IN [c |-> l.c, ret |-> TRUE, calls |-> log \o l.calls, id |-> l.id]

\* lines 153-160: resolve the site and report
ResolveAndReport(c, url, srv, log) ==
  LET l == _get_site_id_from_url(c, url, srv)
  IN [c |-> l.c, ret |-> (l.id # None), calls |-> log \o l.calls, id |-> l.id]

\* variant: the return False after the failed fallback is missing
test_connection_NoReturn(c, team_url, srv) ==
  IF c.authenticated
  THEN { ResolveAndReport(c, team_url, srv, <<>>) }
  ELSE UNION {
    LET log1 == Append(a.calls, Returned("authenticate", a.ret))
    IN IF a.ret
       THEN { ResolveAndReport(a.c, team_url, srv, log1) }
       ELSE {
         ResolveAndReport(d.c, team_url, srv,
           Append(log1 \o d.calls, Returned("authenticate_device_code", d.ret)))
         : d \in AuthenticateDeviceCodeRuns(a.c, team_url) }
    : a \in AuthenticateRuns(c, team_url) }

\* variant: the test of self.authenticated is missing
test_connection_Reauthenticates(c, team_url, srv) ==
  UNION {
    LET log1 == Append(a.calls, Returned("authenticate", a.ret))
    IN IF a.ret
       THEN { ResolveAndReport(a.c, team_url, srv, log1) }
       ELSE {
         LET log2 == Append(log1 \o d.calls, Returned("authenticate_device_code", d.ret))
         IN IF d.ret
            THEN ResolveAndReport(d.c, team_url, srv, log2)
            ELSE [c |-> d.c, ret |-> FALSE, calls |-> log2, id |-> None]
         : d \in AuthenticateDeviceCodeRuns(a.c, team_url) }
    : a \in AuthenticateRuns(c, team_url) }

\* every run of test_connection: the outcome of each SDK call is drawn where
\* the call is made
test_connection(c, team_url, srv) ==
  IF c.authenticated
  THEN { ResolveAndReport(c, team_url, srv, <<>>) }
  ELSE UNION {
    LET log1 == Append(a.calls, Returned("authenticate", a.ret))
    IN IF a.ret
       THEN { ResolveAndReport(a.c, team_url, srv, log1) }
       ELSE {
         \* Try device code as fallback
         LET log2 == Append(log1 \o d.calls, Returned("authenticate_device_code", d.ret))
         IN IF d.ret
            THEN ResolveAndReport(d.c, team_url, srv, log2)
            ELSE [c |-> d.c, ret |-> FALSE, calls |-> log2, id |-> None]
         : d \in AuthenticateDeviceCodeRuns(a.c, team_url) }
    : a \in AuthenticateRuns(c, team_url) }

(***************************************************************************)
(* SharePointClient.get_excel_files                                        *)
(***************************************************************************)
\* folder_path.strip() is empty: only white space
Blank(s) == \A k \in 1..Len(s) : s[k] = " "
\* the children address: of the folder when folder_path is given, else of
\* the root of the default document library
ChildrenRequest(folder_path) ==
  IF folder_path # <<>> /\ ~Blank(folder_path)
  THEN "requests.get folder children"
  ELSE "requests.get root children"

\* item.get("file") and item.get("name", "").lower().endswith((...))
IsExcelFile_AnyItem(item) ==
  \E e \in ExcelExtensions : EndsWith(Lower(item.name), e)
IsExcelFile(item) ==
  /\ item.file = "facet"
  /\ \E e \in ExcelExtensions : EndsWith(Lower(item.name), e)

\* the descriptor appended for an item; a missing downloadUrl becomes ""
\* (None here), item["webUrl"] and item["id"] must be there
Descriptor(item) ==
  [name |-> item.name, url |-> item.webUrl, download_url |-> item.downloadUrl,
   modified |-> item.lastModifiedDateTime, size |-> item.size, id |-> item.id]
Descriptors(items) ==
  LET sel == SelectSeq(items, IsExcelFile)
  IN [k \in 1..Len(sel) |-> Descriptor(sel[k])]
\* item["webUrl"] or item["id"] raises KeyError for an item that passed the filter
MissingKey(items) ==
  \E k \in 1..Len(items) :
    IsExcelFile(items[k]) /\ (items[k].webUrl = None \/ items[k].id = None)

\* the message of an exception: its text and the status formatted into it
Message(text, status) == [text |-> text, status |-> status]
NoMessage == Message("", None)
\* the call raises to the caller (except Exception: ... raise)
Raises_Swallowed(c, log, msg) ==
  [c |-> c, raised |-> FALSE, files |-> <<>>, calls |-> log, message |-> NoMessage]
Raises(c, log, msg) ==
  [c |-> c, raised |-> TRUE, files |-> <<>>, calls |-> log, message |-> msg]

\* lines 179-215: the listing request and the filter
ListChildren(c, folder_path, log, items) ==
  { LET log2 == Append(log, Call(ChildrenRequest(folder_path), response.kind, response.status))
    IN IF response.kind = "raise" THEN Raises(c, log2, Message("requests", None))
       ELSE IF response.status # HTTP_OK
       THEN Raises(c, log2, Message("Failed to retrieve files: ", response.status))
       ELSE IF MissingKey(response.value) THEN Raises(c, log2, Message("KeyError", None))
       ELSE [c |-> c, raised |-> FALSE, files |-> Descriptors(response.value),
             calls |-> log2, message |-> NoMessage]
    : response \in ListingResponses(items) }

\* lines 174-215
ResolveAndList(c, team_url, folder_path, srv, log, items) ==
  LET l == _get_site_id_from_url(c, team_url, srv)
  IN IF l.id = None
     THEN { Raises(l.c, log \o l.calls, Message("Could not get site information", None)) }
     ELSE ListChildren(l.c, folder_path, log \o l.calls, items)

\* every run of get_excel_files
get_excel_files_IgnoresAuth(c, team_url, folder_path, srv, items) ==
  IF c.authenticated
  THEN ResolveAndList(c, team_url, folder_path, srv, <<>>, items)
  ELSE UNION {
    ResolveAndList(a.c, team_url, folder_path, srv,
                   Append(a.calls, Returned("authenticate", a.ret)), items)
    : a \in AuthenticateRuns(c, team_url) }
get_excel_files(c, team_url, folder_path, srv, items) ==
  IF c.authenticated
  THEN ResolveAndList(c, team_url, folder_path, srv, <<>>, items)
  ELSE UNION {
    LET log1 == Append(a.calls, Returned("authenticate", a.ret))
    IN IF a.ret
       THEN ResolveAndList(a.c, team_url, folder_path, srv, log1, items)
       ELSE { Raises(a.c, log1, Message("Authentication failed", None)) }
    : a \in AuthenticateRuns(c, team_url) }

(***************************************************************************)
(* SharePointClient.download_file                                          *)
(***************************************************************************)
\* file_info arguments: descriptors of a listing, and one without download URL
FileInfos == { Descriptor(Q1Xlsx), Descriptor(Q2Xlsm),
               [Descriptor(Q1Xlsx) EXCEPT !.download_url = None] }
\* open(local_path, 'wb') succeeds or raises OSError
OpenOutcomes == {"ok", "raise"}

\* the calls of a run of download_file that got past the checks of lines
\* 223-230: the request, the body of its response, and open(local_path, 'wb')
\* on a path that held disk
DownloadCalls(file_info, response, opened, disk) ==
  LET log0 == <<Call("file_info.get download_url", "value", file_info.download_url)>>
      log1 == Append(log0, Call("requests.get download", response.kind, response.status))
      log2 == Append(log1, Call("response.content", "value", response.content))
  IN IF response.kind = "raise" THEN log1
     ELSE IF response.status = HTTP_OK
     THEN Append(log2, Call("open wb", opened, disk))
     ELSE log2

\* every run of download_file; disk is the content at local_path
download_file_KeepsExisting(c, file_info, disk) ==
  IF ~c.authenticated \/ file_info.download_url = None
  THEN { [c |-> c, ret |-> FALSE, calls |-> <<>>, disk |-> disk] }
  ELSE {
    [c |-> c, ret |-> response.kind = "response" /\ response.status = HTTP_OK,
     calls |-> DownloadCalls(file_info, response, "ok", disk),
     disk |-> IF disk = None THEN response.content ELSE disk]
    : response \in DownloadResponses }
download_file_NoUrlCheck(c, file_info, disk) ==
  IF ~c.authenticated
  THEN { [c |-> c, ret |-> FALSE, calls |-> <<>>, disk |-> disk] }
  ELSE {
    [c |-> c, ret |-> response.kind = "response" /\ response.status = HTTP_OK,
     calls |-> DownloadCalls(file_info, response, "ok", disk),
     disk |-> IF response.status = HTTP_OK THEN response.content ELSE disk]
    : response \in DownloadResponses }
download_file(c, file_info, disk) ==
  IF ~c.authenticated
  \* raise Exception("Not authenticated"), caught at line 246
  THEN { [c |-> c, ret |-> FALSE, calls |-> <<>>, disk |-> disk] }
  ELSE IF file_info.download_url = None
  THEN { [c |-> c, ret |-> FALSE,
          calls |-> <<Call("file_info.get download_url", "value", None)>>,
          disk |-> disk] }
  ELSE {
    LET log == DownloadCalls(file_info, response, opened, disk)
    IN IF response.kind = "raise" THEN [c |-> c, ret |-> FALSE, calls |-> log, disk |-> disk]
       ELSE IF response.status = HTTP_OK
       THEN IF opened = "ok"
            THEN [c |-> c, ret |-> TRUE, calls |-> log, disk |-> response.content]
            ELSE [c |-> c, ret |-> FALSE, calls |-> log, disk |-> disk]
       ELSE [c |-> c, ret |-> FALSE, calls |-> log, disk |-> disk]
    : response \in DownloadResponses, opened \in OpenOutcomes }

(***************************************************************************)
(* SharePointClient.upload_file                                            *)
(***************************************************************************)
UploadRequest(folder_path) ==
  IF folder_path # <<>> /\ ~Blank(folder_path)
  THEN "requests.put folder content"
  ELSE "requests.put root content"

\* every run of upload_file; disk is the content at local_path
upload_file_OnlyOk(c, team_url, folder_path, srv, disk) ==
  IF ~c.authenticated
  THEN { Run(c, FALSE, <<>>) }
  ELSE
    LET l == _get_site_id_from_url(c, team_url, srv)
        log1 == Append(l.calls, Call("open rb", IF disk = None THEN "raise" ELSE "ok", None))
    IN IF l.id = None THEN { Run(l.c, FALSE, l.calls) }
       ELSE IF disk = None THEN { Run(l.c, FALSE, log1) }
       ELSE {
         Run(l.c, response.kind = "response" /\ response.status = HTTP_OK,
             Append(log1, Call(UploadRequest(folder_path), response.kind, response.status)))
         : response \in UploadResponses }
upload_file(c, team_url, folder_path, srv, disk) ==
  IF ~c.authenticated
  THEN { Run(c, FALSE, <<>>) }
  ELSE
    LET l == _get_site_id_from_url(c, team_url, srv)
        log1 == Append(l.calls, Call("open rb", IF disk = None THEN "raise" ELSE "ok", None))
    IN IF l.id = None THEN { Run(l.c, FALSE, l.calls) }
       \* open(local_path, 'rb') raises FileNotFoundError
       ELSE IF disk = None THEN { Run(l.c, FALSE, log1) }
       ELSE {
         LET log2 == Append(log1, Call(UploadRequest(folder_path), response.kind, response.status))
         IN IF response.kind = "raise" THEN Run(l.c, FALSE, log2)
            ELSE Run(l.c, response.status \in {HTTP_OK, HTTP_CREATED}, log2)
         : response \in UploadResponses }

(***************************************************************************)
(* AppSettings and SettingsManager (settings.py)                           *)
(***************************************************************************)
\* Python values, with their type
PyStr(x)  == [t |-> "str", v |-> x]
PyInt(n)  == [t |-> "int", v |-> n]
PyBool(b) == [t |-> "bool", v |-> b]
PyNone    == [t |-> "NoneType", v |-> "None"]
\* JSON values, as json.dump writes them
JString(x) == [j |-> "string", v |-> x]
JNumber(n) == [j |-> "number", v |-> n]
JTrue      == [j |-> "true", v |-> "true"]
JFalse     == [j |-> "false", v |-> "false"]
JNull      == [j |-> "null", v |-> "null"]

\* json.dump of one value
ToJson_Stringify(value) ==
  CASE value.t = "str"  -> JString(value.v)
    [] value.t = "int"  -> JString(value.v)
    [] value.t = "bool" -> IF value.v THEN JTrue ELSE JFalse
    [] value.t = "NoneType" -> JNull
ToJson(value) ==
  CASE value.t = "str"  -> JString(value.v)
    [] value.t = "int"  -> JNumber(value.v)
    [] value.t = "bool" -> IF value.v THEN JTrue ELSE JFalse
    [] value.t = "NoneType" -> JNull
\* json.load of one value
FromJson(jv) ==
  CASE jv.j = "string" -> PyStr(jv.v)
    [] jv.j = "number" -> PyInt(jv.v)
    [] jv.j = "true"   -> PyBool(TRUE)
    [] jv.j = "false"  -> PyBool(FALSE)
    [] jv.j = "null"   -> PyNone

\* the fields of AppSettings with their default values
Defaults ==
  [team_url |-> PyStr(""), document_folder |-> PyStr(""),
   window_width |-> PyInt(800), window_height |-> PyInt(600),
   window_x |-> PyNone, window_y |-> PyNone,
   remember_credentials |-> PyBool(FALSE), auto_connect |-> PyBool(FALSE),
   last_username |-> PyStr(""), theme |-> PyStr("system")]
Fields == DOMAIN Defaults
\* AppSettings()
AppSettings == [k \in Fields |-> Defaults[k]]

\* a file: absent, not JSON ("text"), not UTF-8 ("bytes"), a JSON document
\* that is an array ("array"), or a JSON object with its members
NoMembers == [k \in {} |-> JNull]
File(kind, data) == [kind |-> kind, data |-> data]
Absent == File("absent", NoMembers)
CorruptFiles == { File("text", NoMembers), File("bytes", NoMembers),
                  File("array", NoMembers) }
\* an object written by hand: one known member and one unknown
HandWritten ==
  File("object", [k \in {"team_url", "zoom"} |->
                    IF k = "team_url" THEN JString("https://b") ELSE JNumber(2)])

\* AppSettings.to_dict: asdict(self)
to_dict(s) == [k \in Fields |-> s[k]]
\* json.dump of a dict into a file
JsonDump(d) == File("object", [k \in DOMAIN d |-> ToJson(d[k])])
\* json.load of a file that holds an object
JsonLoad(file) == [k \in DOMAIN file.data |-> FromJson(file.data[k])]
\* AppSettings.from_dict: the known keys of data, defaults for the others
from_dict(data) ==
  [k \in Fields |-> IF k \in DOMAIN data THEN data[k] ELSE Defaults[k]]

\* the outcome of a method of SettingsManager
Outcome(s, r, exc, config, backup) ==
  [settings |-> s, ret |-> r, raised |-> exc, config |-> config, backup |-> backup]

\* SettingsManager.load
load(s, config, backup) ==
  CASE config.kind = "absent" -> Outcome(s, FALSE, FALSE, config, backup)
    \* json.JSONDecodeError: reset to defaults
    [] config.kind = "text"   -> Outcome(AppSettings, FALSE, FALSE, config, backup)
    \* UnicodeDecodeError is not among the caught exceptions
    [] config.kind = "bytes"  -> Outcome(s, FALSE, TRUE, config, backup)
    \* data.items() raises AttributeError, not among the caught exceptions
    [] config.kind = "array"  -> Outcome(s, FALSE, TRUE, config, backup)
    [] config.kind = "object" ->
         Outcome(from_dict(JsonLoad(config)), TRUE, FALSE, config, backup)

\* SettingsManager.__init__: default settings, then load(); s is the manager
\* at hand, which stays the manager when the constructor raises
SettingsManager(s, config, backup) ==
  LET l == load(AppSettings, config, backup)
  IN IF l.raised THEN Outcome(s, FALSE, TRUE, config, backup) ELSE l

\* the methods of AppSettings: attributes of every instance, like the fields
Methods == { "to_dict", "from_dict" }
PyMethod(name) == [t |-> "method", v |-> name]
\* hasattr(self._settings, key): a field, a method, or an attribute set before
HasAttr(s, key) == key \in DOMAIN s \/ key \in Methods
\* setattr(self._settings, key, value): the instance attribute hides a method
SetAttr(s, key, value) ==
  [k \in DOMAIN s \cup {key} |-> IF k = key THEN value ELSE s[k]]

\* SettingsManager.get: getattr(self._settings, key, default)
get(s, key, default) ==
  IF key \in DOMAIN s THEN s[key]
  ELSE IF key \in Methods THEN PyMethod(key)
  ELSE default

\* SettingsManager.set
set(s, key, value, config, backup) ==
  IF HasAttr(s, key)
  THEN Outcome(SetAttr(s, key, value), FALSE, FALSE, config, backup)
  \* raise AttributeError(f"Unknown setting: {key}")
  ELSE Outcome(s, FALSE, TRUE, config, backup)

\* SettingsManager.update: set for each item of kwargs, in order
RECURSIVE update(_, _, _, _)
update(s, kwargs, config, backup) ==
  IF kwargs = <<>> THEN Outcome(s, FALSE, FALSE, config, backup)
  ELSE LET first == set(s, kwargs[1][1], kwargs[1][2], config, backup)
       IN IF first.raised THEN first
          ELSE update(first.settings, Tail(kwargs), config, backup)

\* the step of save that raises IOError, if any
SaveFailures == { "unlink", "rename", "open", "write" }
\* SettingsManager.save, the step fail raising (none when fail is "none")
save(s, config, backup, fail) ==
  LET exists == config.kind # "absent"
      \* the backup when the write is reached: the old file, if there was one
      backup1 == IF exists THEN config ELSE backup
      \* except (IOError, TypeError): the backup, if any, is renamed back
      Restore(c, b) ==
        IF b.kind # "absent" THEN Outcome(s, FALSE, FALSE, b, Absent)
        ELSE Outcome(s, FALSE, FALSE, c, b)
  IN CASE fail = "unlink" -> Restore(config, backup)
       [] fail = "rename" -> Restore(config, Absent)
       [] fail = "open"   -> Restore(Absent, backup1)
       [] fail = "write"  -> Restore(File("text", NoMembers), backup1)
       \* self._settings.to_dict is no longer callable: TypeError, raised
       \* after open(..., 'w') emptied the file
       [] "to_dict" \in DOMAIN s -> Restore(File("text", NoMembers), backup1)
       [] OTHER -> Outcome(s, TRUE, FALSE, JsonDump(to_dict(s)), backup1)
\* every run of save: a step can fail only when it is taken
SaveRuns(s, config, backup) ==
  { save(s, config, backup, fail) :
      fail \in { f \in SaveFailures \cup {"none"} :
                   /\ f = "unlink" => config.kind # "absent" /\ backup.kind # "absent"
                   /\ f = "rename" => config.kind # "absent" } }

\* SettingsManager.__exit__: save() whatever ended the block; it returns
\* None, so an exception that ended the block (exc) goes on to the caller.
\* log is the calls it made.
Exited(r, exc, log) ==
  [settings |-> r.settings, ret |-> FALSE, raised |-> exc,
   config |-> r.config, backup |-> r.backup, log |-> log]
__exit__(s, config, backup, fail, exc) ==
  LET r == save(s, config, backup, fail)
  IN Exited(r, exc, <<Returned("save", r.ret)>>)

\* Python's truth value of a setting
Truthy(value) ==
  CASE value.t = "str" -> value.v # ""
    [] value.t = "int" -> value.v # 0
    [] value.t = "bool" -> value.v
    [] value.t = "NoneType" -> FALSE
    [] OTHER -> TRUE

\* SettingsManager.get_recent_connections: the list it returns
get_recent_connections_Always(s) ==
  << [url |-> s["team_url"], folder |-> s["document_folder"],
      last_used |-> PyStr("current")] >>
get_recent_connections(s) ==
  IF Truthy(s["team_url"])
  THEN << [url |-> s["team_url"], folder |-> s["document_folder"],
           last_used |-> PyStr("current")] >>
  ELSE <<>>

\* SettingsManager.add_recent_connection
add_recent_connection(s, url, folder, config, backup) ==
  update(s, << <<"team_url", url>>, <<"document_folder", folder>> >>, config, backup)

\* the connections the user enters
ConnectionUrls == { PyStr(""), PyStr("https://a"), PyStr("https://b") }
ConnectionFolders == { PyStr(""), PyStr("/docs") }

\* the step of export_settings that raises, if any
ExportFailures == { "open", "write" }
\* SettingsManager.export_settings to a path that holds target: the result
\* and the file afterwards; every exception is caught
export_settings(s, target, fail) ==
  CASE fail = "open"  -> [ret |-> FALSE, file |-> target]
    [] fail = "write" -> [ret |-> FALSE, file |-> File("text", NoMembers)]
    \* to_dict is not callable: TypeError after open(..., 'w')
    [] "to_dict" \in DOMAIN s -> [ret |-> FALSE, file |-> File("text", NoMembers)]
    [] OTHER -> [ret |-> TRUE, file |-> JsonDump(to_dict(s))]

\* SettingsManager.import_settings from a path that holds source: the result
\* and the settings afterwards; every exception is caught
import_settings_Resets(s, source) ==
  IF source.kind = "object"
  THEN [ret |-> TRUE, settings |-> from_dict(JsonLoad(source))]
  ELSE [ret |-> FALSE, settings |-> AppSettings]
import_settings(s, source) ==
  CASE source.kind = "object" -> [ret |-> TRUE, settings |-> from_dict(JsonLoad(source))]
    \* FileNotFoundError, JSONDecodeError, UnicodeDecodeError, AttributeError
    [] OTHER -> [ret |-> FALSE, settings |-> s]

\* arguments of set, of update, and the files a user leaves in the directory
SetInputs == { <<"team_url", PyStr("https://a")>>, <<"window_width", PyInt(1024)>>,
               <<"window_x", PyInt(100)>>, <<"window_x", PyNone>>,
               <<"zoom", PyInt(2)>>, <<"to_dict", PyInt(2)>> }
UpdateInputs == { <<>>,
                  << <<"team_url", PyStr("https://a")>>, <<"window_width", PyInt(1024)>> >>,
                  << <<"window_x", PyInt(100)>>, <<"zoom", PyInt(2)>>,
                     <<"window_width", PyInt(1024)>> >> }
EditedFiles == CorruptFiles \cup { Absent, HandWritten }

(***************************************************************************)
(* The state machine                                                       *)
(***************************************************************************)
\* the client after __init__, nothing called yet
Constructed ==
  /\ access_token = None
  /\ authenticated = FALSE
  /\ site_url = NoUrl
  /\ op = "__init__"
  /\ arg = NoUrl
  /\ ret = FALSE
  /\ raised = FALSE
  /\ site_id = None
  /\ calls = <<>>
  /\ files = <<>>
  /\ repeated = FALSE
  /\ message = NoMessage

\* no settings file yet, default settings
\* the window after startup
WindowReady ==
  /\ status_label = "Ready"
  /\ files_text = ""
WindowUnchanged == UNCHANGED <<status_label, files_text>>

\* temp_dir: None, the directory mkdtemp made, or its path after the
\* directory was removed
NoDir == 0
DirMade == 1
DirRemoved == 2
\* None for the workbook, the path and the descriptor of an ExcelManager;
\* a value that is set is kept as a one-element sequence
Unset == <<>>

\* ExcelManager.__init__
ExcelManagerNew ==
  /\ temp_dir = NoDir
  /\ current_workbook = Unset
  /\ current_file_path = Unset
  /\ current_file_info = Unset
ExcelUnchanged ==
  UNCHANGED <<temp_dir, current_workbook, current_file_path, current_file_info>>

NoSettingsFile ==
  /\ settings = AppSettings
  /\ config_file = Absent
  /\ backup_file = Absent
  /\ input = <<>>
  /\ export_file = Absent
  /\ importer = AppSettings
  /\ recent = <<>>

Init ==
  /\ Constructed
  /\ sites \in [GraphUrls -> SiteResponses]
  /\ drive \in Listings
  /\ local_file = None
  /\ WindowReady /\ ExcelManagerNew
  /\ NoSettingsFile

\* the client after an operation, and the record of the operation
Finish(name, url, c, r, id, log) ==
  /\ access_token' = c.access_token
  /\ authenticated' = c.authenticated
  /\ site_url' = c.site_url
  /\ op' = name
  /\ arg' = url
  /\ ret' = r
  /\ site_id' = id
  /\ calls' = log
  /\ repeated' = (name = "_get_site_id_from_url" /\ op = name /\ arg = url)
  /\ UNCHANGED <<sites, drive>>
  /\ UNCHANGED <<settings, config_file, backup_file, input, export_file, importer, recent>>
  /\ WindowUnchanged /\ ExcelUnchanged

Authenticate ==
  \E url \in Urls : \E r \in AuthenticateRuns(Client, url) :
    /\ Finish("authenticate", url, r.c, r.ret, None, r.calls)
    /\ raised' = r.raised /\ message' = NoMessage /\ files' = <<>>
    /\ UNCHANGED local_file

AuthenticateDeviceCode ==
  \E url \in Urls : \E r \in AuthenticateDeviceCodeRuns(Client, url) :
    /\ Finish("authenticate_device_code", url, r.c, r.ret, None, r.calls)
    /\ raised' = r.raised /\ message' = NoMessage /\ files' = <<>>
    /\ UNCHANGED local_file

GetSiteIdFromUrl ==
  \E url \in Urls :
    LET r == _get_site_id_from_url(Client, url, sites)
    IN /\ Finish("_get_site_id_from_url", url, r.c, FALSE, r.id, r.calls)
       /\ raised' = FALSE /\ message' = NoMessage /\ files' = <<>>
       /\ UNCHANGED local_file

TestConnection ==
  \E url \in Urls : \E r \in test_connection(Client, url, sites) :
    /\ Finish("test_connection", url, r.c, r.ret, r.id, r.calls)
    /\ raised' = FALSE /\ message' = NoMessage /\ files' = <<>>
    /\ UNCHANGED local_file

GetExcelFiles ==
  \E url \in Urls, folder_path \in Folders :
    \E r \in get_excel_files(Client, url, folder_path, sites, drive) :
      /\ Finish("get_excel_files", url, r.c, FALSE, None, r.calls)
      /\ raised' = r.raised /\ message' = r.message /\ files' = r.files
      /\ UNCHANGED local_file

DownloadFile ==
  \E file_info \in FileInfos : \E r \in download_file(Client, file_info, local_file) :
    /\ Finish("download_file", NoUrl, r.c, r.ret, None, r.calls)
    /\ raised' = FALSE /\ message' = NoMessage /\ files' = <<>>
    /\ local_file' = r.disk

UploadFile ==
  \E url \in Urls, folder_path \in Folders :
    \E r \in upload_file(Client, url, folder_path, sites, local_file) :
      /\ Finish("upload_file", url, r.c, r.ret, None, r.calls)
      /\ raised' = r.raised /\ message' = NoMessage /\ files' = <<>>
      /\ UNCHANGED local_file

\* the directory service changes its answer for one site address
ServerChange ==
  /\ \E g \in GraphUrls, response \in SiteResponses :
       /\ sites[g] # response
       /\ sites' = [sites EXCEPT ![g] = response]
  /\ op' = "server"
  /\ arg' = NoUrl
  /\ ret' = FALSE
  /\ raised' = FALSE
  /\ site_id' = None
  /\ calls' = <<>>
  /\ files' = <<>>
  /\ repeated' = FALSE
  /\ message' = NoMessage
  /\ UNCHANGED <<access_token, authenticated, site_url, local_file, drive>>
  /\ UNCHANGED <<settings, config_file, backup_file, input, export_file, importer, recent>>
  /\ WindowUnchanged /\ ExcelUnchanged

Next ==
  \/ Authenticate
  \/ AuthenticateDeviceCode
  \/ GetSiteIdFromUrl
  \/ TestConnection
  \/ GetExcelFiles
  \/ DownloadFile
  \/ UploadFile
  \/ ServerChange

Spec == Init /\ [][Next]_vars

\* get_excel_files on every listing of Drives
InitListing ==
  /\ Constructed
  /\ sites \in [GraphUrls -> SiteResponses]
  /\ drive \in Drives \cup Listings
  /\ local_file = None
  /\ WindowReady /\ ExcelManagerNew
  /\ NoSettingsFile
NextListing == GetExcelFiles
SpecListing == InitListing /\ [][NextListing]_vars

\* the transfers of a file, on a local path that may hold a file already
InitFiles ==
  /\ Constructed
  /\ sites \in [GraphUrls -> SiteResponses]
  /\ drive = <<>>
  /\ local_file \in {None} \cup Contents
  /\ WindowReady /\ ExcelManagerNew
  /\ NoSettingsFile
NextFiles == Authenticate \/ DownloadFile \/ UploadFile
SpecFiles == InitFiles /\ [][NextFiles]_vars

(***************************************************************************)
(* The settings manager and its config directory                          *)
(***************************************************************************)
\* a manager constructed on a directory with no file, a file that is not
\* JSON, or a file written by hand
InitSettings ==
  /\ Constructed
  /\ sites = [g \in GraphUrls |-> [kind |-> "raise", status |-> 0, id |-> None]]
  /\ drive = <<>>
  /\ local_file = None
  /\ WindowReady /\ ExcelManagerNew
  /\ config_file \in { Absent, File("text", NoMembers), HandWritten }
  /\ backup_file = Absent
  /\ settings = SettingsManager(AppSettings, config_file, backup_file).settings
  /\ input = <<>>
  /\ export_file = Absent
  /\ importer = AppSettings
  /\ recent = <<>>

\* the manager and the files after a method, and the record of the call
Settle(name, args, r) ==
  /\ input' = args
  /\ calls' = <<>>
  /\ settings' = r.settings
  /\ config_file' = r.config
  /\ backup_file' = r.backup
  /\ op' = name
  /\ ret' = r.ret
  /\ raised' = r.raised

\* the settings manager does not touch the client or the directory service
ClientUnchanged ==
  UNCHANGED <<access_token, authenticated, site_url, sites, arg, site_id,
              files, local_file, repeated, drive, message>>
\* the calls on the first manager leave the second and the export file alone
ImporterUnchanged == UNCHANGED <<export_file, importer, recent>>

NewSettingsManager ==
  /\ Settle("SettingsManager", <<>>, SettingsManager(settings, config_file, backup_file))
  /\ ClientUnchanged /\ ImporterUnchanged /\ WindowUnchanged /\ ExcelUnchanged

SetSetting ==
  \E kv \in SetInputs :
    /\ Settle("set", kv, set(settings, kv[1], kv[2], config_file, backup_file))
    /\ ClientUnchanged /\ ImporterUnchanged /\ WindowUnchanged /\ ExcelUnchanged

UpdateSettings ==
  \E kwargs \in UpdateInputs :
    /\ Settle("update", kwargs, update(settings, kwargs, config_file, backup_file))
    /\ ClientUnchanged /\ ImporterUnchanged /\ WindowUnchanged /\ ExcelUnchanged

Load ==
  /\ Settle("load", <<>>, load(settings, config_file, backup_file))
  /\ ClientUnchanged /\ ImporterUnchanged /\ WindowUnchanged /\ ExcelUnchanged

Save ==
  \E r \in SaveRuns(settings, config_file, backup_file) :
    /\ Settle("save", <<>>, r)
    /\ ClientUnchanged /\ ImporterUnchanged /\ WindowUnchanged /\ ExcelUnchanged

\* the end of a with block on the manager, normally or by an exception
ExitWith ==
  \E exc \in BOOLEAN :
    \E fail \in { f \in SaveFailures \cup {"none"} :
                    /\ f = "unlink" => config_file.kind # "absent" /\ backup_file.kind # "absent"
                    /\ f = "rename" => config_file.kind # "absent" } :
      LET r == __exit__(settings, config_file, backup_file, fail, exc)
      IN /\ settings' = r.settings
         /\ config_file' = r.config
         /\ backup_file' = r.backup
         /\ op' = "__exit__"
         /\ input' = <<exc, fail>>
         /\ ret' = r.ret
         /\ raised' = r.raised
         /\ calls' = r.log
         /\ ClientUnchanged /\ ImporterUnchanged /\ WindowUnchanged /\ ExcelUnchanged

\* a user or another program replaces or removes settings.json
FileEdit ==
  \E file \in EditedFiles :
    /\ file # config_file
    /\ Settle("edit", <<>>, Outcome(settings, FALSE, FALSE, file, backup_file))
    /\ ClientUnchanged /\ ImporterUnchanged /\ WindowUnchanged /\ ExcelUnchanged

NextSettings ==
  \/ NewSettingsManager
  \/ SetSetting
  \/ UpdateSettings
  \/ Load
  \/ Save
  \/ ExitWith
  \/ FileEdit

SpecSettings == InitSettings /\ [][NextSettings]_vars

(***************************************************************************)
(* Two settings managers and an export file                                *)
(***************************************************************************)
InitExport ==
  /\ Constructed
  /\ sites = [g \in GraphUrls |-> [kind |-> "raise", status |-> 0, id |-> None]]
  /\ drive = <<>>
  /\ local_file = None
  /\ WindowReady /\ ExcelManagerNew
  /\ NoSettingsFile

\* the record of a call that leaves the first manager and its files alone
Noted(name, args, r, exc) ==
  /\ op' = name
  /\ calls' = <<>>
  /\ input' = args
  /\ ret' = r
  /\ raised' = exc
  /\ UNCHANGED <<settings, config_file, backup_file, recent>>
  /\ WindowUnchanged /\ ExcelUnchanged

ExportSettings ==
  \E fail \in ExportFailures \cup {"none"} :
    LET r == export_settings(settings, export_file, fail)
    IN /\ Noted("export_settings", <<>>, r.ret, FALSE)
       /\ export_file' = r.file
       /\ UNCHANGED importer
       /\ ClientUnchanged

ImportSettings ==
  LET r == import_settings(importer, export_file)
  IN /\ Noted("import_settings", <<>>, r.ret, FALSE)
     /\ importer' = r.settings
     /\ UNCHANGED export_file
     /\ ClientUnchanged

\* set on the second manager
ImporterSet ==
  \E kv \in SetInputs :
    LET r == set(importer, kv[1], kv[2], config_file, backup_file)
    IN /\ Noted("importer.set", kv, FALSE, r.raised)
       /\ importer' = r.settings
       /\ UNCHANGED export_file
       /\ ClientUnchanged

\* a user or another program replaces or removes the export file
ExportFileEdit ==
  \E file \in EditedFiles :
    /\ file # export_file
    /\ Noted("edit", <<>>, FALSE, FALSE)
    /\ export_file' = file
    /\ UNCHANGED importer
    /\ ClientUnchanged

NextExport ==
  \/ SetSetting
  \/ ImporterSet
  \/ ExportSettings
  \/ ImportSettings
  \/ ExportFileEdit

SpecExport == InitExport /\ [][NextExport]_vars

\* ---- the recent connections of a settings manager ----

\* the user connects: add_recent_connection(url, folder)
AddRecentConnection ==
  \E url \in ConnectionUrls, folder \in ConnectionFolders :
    /\ Settle("add_recent_connection", <<url, folder>>,
              add_recent_connection(settings, url, folder, config_file, backup_file))
    /\ ClientUnchanged /\ ImporterUnchanged /\ WindowUnchanged /\ ExcelUnchanged

\* get_recent_connections()
GetRecentConnections ==
  /\ op' = "get_recent_connections"
  /\ input' = <<>>
  /\ calls' = <<>>
  /\ ret' = FALSE
  /\ raised' = FALSE
  /\ recent' = get_recent_connections(settings)
  /\ UNCHANGED <<settings, config_file, backup_file, export_file, importer>>
  /\ ClientUnchanged
  /\ WindowUnchanged /\ ExcelUnchanged

NextRecent ==
  \/ SetSetting
  \/ AddRecentConnection
  \/ GetRecentConnections

SpecRecent == InitExport /\ [][NextRecent]_vars

(***************************************************************************)
(* The window: gui.py                                                      *)
(***************************************************************************)
\* url_input.value.strip() of an empty field
EmptyUrl == [netloc |-> "", path |-> <<>>]
\* the text of a URL
RECURSIVE Join(_)
Join(path) == IF path = <<>> THEN "" ELSE Head(path) \o Join(Tail(path))
UrlText(url) == IF url = EmptyUrl THEN "" ELSE "https://" \o url.netloc \o Join(url.path)

\* folder_input.value.strip()
GuiFolders == { PyStr("/docs") }

\* the error the sign-in service answers with when an acquisition fails,
\* carried in error_description or in the message of the exception; a code
\* stands for every text that contains it
ErrorTexts == { "AADSTS53003", "AADSTS50058", "AADSTS70011" }

\* the texts test_connection sets on the status label
EnterUrl == "Please enter a team URL"
ConnectionSuccessful == "Connection successful!"
ConnectionFailed == "Connection failed - check URL and try again"
BlockedTryDeviceAuth == "Connection blocked by Conditional Access - try Device Auth"
SilentFailedTryDeviceAuth == "Silent sign-in failed - try Device Auth"
ConnectionError == "Connection error: "

\* whether a run of a client operation raised to its caller
Propagates(r) == "raised" \in DOMAIN r /\ r.raised

\* gui.py test_connection, lines 457-484: the status for a run r of the
\* client's test_connection during which the service's error was text
TestConnectionStatus(r, text) ==
  CASE Propagates(r) /\ text = "AADSTS53003" -> BlockedTryDeviceAuth
    [] Propagates(r) /\ text = "AADSTS50058" -> SilentFailedTryDeviceAuth
    [] Propagates(r) -> ConnectionError \o text
    [] r.ret -> ConnectionSuccessful
    [] OTHER -> ConnectionFailed

\* gui.py test_connection: every run, with the status it ends with and the
\* settings it leaves
gui_test_connection(c, s, team_url, folder_path, srv, text) ==
  IF team_url = EmptyUrl
  THEN { [c |-> c, ret |-> FALSE, calls |-> <<>>, id |-> None,
          status |-> EnterUrl, settings |-> s] }
  ELSE { [c |-> r.c, ret |-> r.ret, calls |-> r.calls, id |-> r.id,
          status |-> TestConnectionStatus(r, text),
          settings |-> IF ~Propagates(r) /\ r.ret
                       THEN update(s, << <<"team_url", PyStr(UrlText(team_url))>>,
                                         <<"document_folder", folder_path>> >>,
                                   Absent, Absent).settings
                       ELSE s]
         : r \in test_connection(c, team_url, srv) }

\* the user presses Test Connection
GuiTestConnection ==
  \E url \in Urls \cup {EmptyUrl}, folder \in GuiFolders, text \in ErrorTexts :
    \E g \in gui_test_connection(Client, settings, url, folder, sites, text) :
      /\ access_token' = g.c.access_token
      /\ authenticated' = g.c.authenticated
      /\ site_url' = g.c.site_url
      /\ op' = "gui.test_connection"
      /\ arg' = url
      /\ input' = <<text>>
      /\ ret' = g.ret
      /\ raised' = FALSE
      /\ site_id' = g.id
      /\ calls' = g.calls
      /\ repeated' = FALSE
      /\ message' = NoMessage
      /\ status_label' = g.status
      /\ settings' = g.settings
      /\ UNCHANGED <<sites, drive, files, local_file, files_text>>
      /\ UNCHANGED <<config_file, backup_file, export_file, importer, recent>>
      /\ ExcelUnchanged

\* the operations SharePointClient defines
ClientOperations ==
  { "authenticate", "authenticate_device_code", "_get_site_id_from_url",
    "test_connection", "get_excel_files", "download_file", "upload_file" }
\* the operation browse_files calls on the client
BrowseOperation == "get_all_files"

\* the texts browse_files sets on the status label and in the files area
EnterUrlFirst == "Please enter a team URL and test connection first"
NoItemsFound == "No items found"
FoundItems == "Found folders and files"
ErrorBrowsing == "Error browsing files: "
TableHeader == "Name Type Size Modified"
RECURSIVE TableRows(_)
TableRows(listing) ==
  IF listing = <<>> THEN ""
  ELSE "\n" \o Join(Head(listing).name) \o TableRows(Tail(listing))

\* gui.py browse_files: table is the files area before, listing what the
\* operation returns when the client has it
browse_files(team_url, table, listing) ==
  IF team_url = EmptyUrl
  THEN [status |-> EnterUrlFirst, files_text |-> table, calls |-> <<>>]
  ELSE IF BrowseOperation \notin ClientOperations
  \* AttributeError, caught by except Exception; the area was cleared before
  THEN [status |-> ErrorBrowsing \o "no attribute " \o BrowseOperation,
        files_text |-> "",
        calls |-> <<Call(BrowseOperation, "AttributeError", None)>>]
  ELSE IF listing = <<>>
  THEN [status |-> NoItemsFound, files_text |-> NoItemsFound,
        calls |-> <<Call(BrowseOperation, "return", None)>>]
  ELSE [status |-> FoundItems, files_text |-> TableHeader \o TableRows(listing),
        calls |-> <<Call(BrowseOperation, "return", None)>>]

\* the user presses Browse Files
GuiBrowseFiles ==
  \E url \in Urls \cup {EmptyUrl} :
    LET b == browse_files(url, files_text, drive)
    IN /\ op' = "gui.browse_files"
       /\ arg' = url
       /\ input' = <<>>
       /\ ret' = FALSE
       /\ raised' = FALSE
       /\ calls' = b.calls
       /\ repeated' = FALSE
       /\ message' = NoMessage
       /\ status_label' = b.status
       /\ files_text' = b.files_text
       /\ UNCHANGED <<access_token, authenticated, site_url, site_id>>
       /\ UNCHANGED <<sites, drive, files, local_file>>
       /\ UNCHANGED <<settings, config_file, backup_file, export_file, importer, recent>>
       /\ ExcelUnchanged

InitGui ==
  /\ Constructed
  /\ sites \in [GraphUrls -> SiteResponses]
  /\ drive \in Listings
  /\ local_file = None
  /\ WindowReady /\ ExcelManagerNew
  /\ NoSettingsFile

NextGui ==
  \/ GuiTestConnection
  \/ GuiBrowseFiles

SpecGui == InitGui /\ [][NextGui]_vars

(***************************************************************************)
(* ExcelManager: excel_manager.py                                          *)
(***************************************************************************)
Manager == [temp_dir |-> temp_dir, current_workbook |-> current_workbook,
            current_file_path |-> current_file_path,
            current_file_info |-> current_file_info]

\* openpyxl.load_workbook returns a workbook or raises
LoadOutcomes == {"ok", "raise"}

is_file_open(m) == m.current_workbook # Unset
get_file_info(m) == m.current_file_info

\* ExcelManager.cleanup: close the workbook, remove the directory
cleanup(m) ==
  [m EXCEPT !.current_workbook = Unset,
            !.temp_dir = IF m.temp_dir = DirMade THEN DirRemoved ELSE m.temp_dir]

\* ExcelManager.download_and_open_excel_file: every run; disk is the file at
\* the path in the temporary directory
download_and_open_excel_file(m, c, file_info, disk) ==
  IF m.temp_dir = NoDir
  \* os.path.join(None, file_name) raises TypeError before anything is set
  THEN { [m |-> m, ret |-> FALSE, calls |-> <<>>, disk |-> disk] }
  ELSE LET m1 == [m EXCEPT !.current_file_path = <<file_info.name>>,
                           !.current_file_info = <<file_info>>]
           \* open(local_path, 'wb') fails in a directory that was removed
           downloads == { d \in download_file(c, file_info, disk) :
                            m.temp_dir = DirRemoved =>
                              \A k \in DOMAIN d.calls :
                                d.calls[k] # Call("open wb", "ok", disk) }
       IN UNION {
            LET log1 == Append(d.calls, Returned("download_file", d.ret))
            IN IF ~d.ret
               \* raise Exception("Failed to download file from SharePoint")
               THEN { [m |-> m1, ret |-> FALSE, calls |-> log1, disk |-> d.disk] }
               ELSE { IF loaded = "ok"
                      THEN [m |-> [m1 EXCEPT !.current_workbook = <<file_info>>],
                            ret |-> TRUE,
                            calls |-> Append(log1, Call("load_workbook", "ok", None)),
                            disk |-> d.disk]
                      ELSE [m |-> m1, ret |-> FALSE,
                            calls |-> Append(log1, Call("load_workbook", "raise", None)),
                            disk |-> d.disk]
                      : loaded \in LoadOutcomes }
            : d \in downloads }

\* what an operation of the manager leaves alone
ManagerCall(name, args, m, r, log) ==
  /\ op' = name
  /\ input' = args
  /\ ret' = r
  /\ raised' = FALSE
  /\ calls' = log
  /\ temp_dir' = m.temp_dir
  /\ current_workbook' = m.current_workbook
  /\ current_file_path' = m.current_file_path
  /\ current_file_info' = m.current_file_info
  /\ UNCHANGED <<access_token, authenticated, site_url, sites, arg, site_id,
                 files, repeated, drive, message>>
  /\ UNCHANGED <<settings, config_file, backup_file, export_file, importer, recent>>
  /\ WindowUnchanged

\* with ExcelManager(...) as m: __enter__ makes a new directory
EnterExcelManager ==
  /\ ManagerCall("__enter__", <<>>, [Manager EXCEPT !.temp_dir = DirMade], FALSE, <<>>)
  /\ local_file' = None

DownloadAndOpen ==
  \E file_info \in FileInfos :
    LET disk == IF current_file_path = <<file_info.name>> THEN local_file ELSE None
    IN \E r \in download_and_open_excel_file(Manager, Client, file_info, disk) :
         /\ ManagerCall("download_and_open_excel_file", <<file_info>>, r.m, r.ret, r.calls)
         /\ local_file' = r.disk

\* cleanup(), called directly or by __exit__
Cleanup ==
  /\ ManagerCall("cleanup", <<>>, cleanup(Manager), FALSE, <<>>)
  /\ local_file' = None

InitExcel ==
  /\ Constructed
  /\ sites = [g \in GraphUrls |-> [kind |-> "raise", status |-> 0, id |-> None]]
  /\ drive = <<>>
  /\ local_file = None
  /\ WindowReady /\ ExcelManagerNew
  /\ NoSettingsFile

NextExcel ==
  \/ Authenticate
  \/ EnterExcelManager
  \/ DownloadAndOpen
  \/ Cleanup

SpecExcel == InitExcel /\ [][NextExcel]_vars

(***************************************************************************)
(* Properties                                                              *)
(***************************************************************************)
\* the log holds a call of f with this kind of outcome
HasCallIn(log, f, kind) == \E k \in DOMAIN log : log[k].f = f /\ log[k].kind = kind
\* the log holds a call of f
AskedIn(log, f) == \E k \in DOMAIN log : log[k].f = f
\* the nested call of f returned b
ReturnedIn(log, f, b) == \E k \in DOMAIN log : log[k] = Returned(f, b)
HasCall(f, kind) == HasCallIn(calls, f, kind)
Asked(f) == AskedIn(calls, f)

\* the name ends in .xlsx, .xlsm or .xls, whatever the case of its letters
HasExcelSuffix(name) ==
  LET n == Len(name)
      low(k) == LowerChar(name[k])
  IN \/ n >= 4 /\ <<low(n - 3), low(n - 2), low(n - 1), low(n)>> = <<".", "x", "l", "s">>
     \/ /\ n >= 5
        /\ <<low(n - 4), low(n - 3), low(n - 2), low(n - 1)>> = <<".", "x", "l", "s">>
        /\ low(n) \in {"x", "m"}

\* C1: authenticate returns True if and only if the silent acquisition or
\* the interactive acquisition yielded a result containing an access token.
C1_AuthenticateTrueIffToken ==
  op = "authenticate" =>
    (ret <=> (HasCall("acquire_token_silent", "token")
              \/ HasCall("acquire_token_interactive", "token")))
\* the silent step yielded no token and the interactive step did
C1_Witness ==
  /\ op = "authenticate" /\ ret
  /\ HasCall("acquire_token_silent", "error")
  /\ HasCall("acquire_token_interactive", "token")

\* C2 as stated: whenever authenticate returns False the authenticated flag
\* is False after the call, whatever it was before.
C2_FailedAuthenticateClearsFlag ==
  (op = "authenticate" /\ ~ret) => ~authenticated
\* C2 amended: an authenticate call that returns False leaves the
\* authenticated flag as it was before the call.
C2_FailedAuthenticateKeepsFlag ==
  [][(op' = "authenticate" /\ ~ret') => authenticated' = authenticated]_vars
\* authenticate failed on a client an earlier flow had authenticated
C2_Witness ==
  /\ op = "authenticate" /\ ~ret /\ authenticated
  /\ HasCall("acquire_token_interactive", "error")

\* C3: once authenticated is True no client operation sets it back to False.
C3_NoWayBack == [][authenticated => authenticated']_vars
\* a device-code flow failed on an authenticated client
C3_Witness ==
  /\ op = "authenticate_device_code" /\ ~ret /\ authenticated
  /\ HasCall("acquire_token_by_device_flow", "error")

\* C4: within authenticate, once the account cache has answered, silent
\* acquisition is attempted exactly when a cached account exists, and
\* interactive acquisition is attempted exactly when no cached account
\* exists or the silent attempt yielded no token.
C4_FallbackChain ==
  (op = "authenticate" /\ ~HasCall("get_accounts", "raise")) =>
    /\ Asked("acquire_token_silent") <=> HasCall("get_accounts", "accounts")
    /\ Asked("acquire_token_interactive") <=>
         (HasCall("get_accounts", "empty")
          \/ ~HasCall("acquire_token_silent", "token"))

\* C5: whenever one of the three acquisition flows yields a token, the
\* client is authenticated, holds the token of that very result, and
\* authenticate / authenticate_device_code return True.
C5_SuccessStoresToken ==
  \A k \in DOMAIN calls :
    (calls[k].kind = "token"
     /\ calls[k].f \in {"acquire_token_silent", "acquire_token_interactive",
                        "acquire_token_by_device_flow"})
    => /\ authenticated
       /\ access_token = calls[k].val
       /\ op \in {"authenticate", "authenticate_device_code"} => ret
\* the interactive step succeeded after a silent step without a token
C5_Witness ==
  /\ op = "authenticate" /\ ret
  /\ HasCall("acquire_token_silent", "null")
  /\ HasCall("acquire_token_interactive", "token")
  /\ access_token = MaxToken

\* C6: authenticate_device_code returns True only if the device flow
\* returned a token; when the initiation returns no user code it returns
\* False without calling the blocking token step and without changing
\* access_token or authenticated.
C6_DeviceCode ==
  [][op' = "authenticate_device_code" =>
       /\ ret' => HasCallIn(calls', "acquire_token_by_device_flow", "token")
       /\ HasCallIn(calls', "initiate_device_flow", "no_user_code") =>
            /\ ~ret'
            /\ ~AskedIn(calls', "acquire_token_by_device_flow")
            /\ access_token' = access_token
            /\ authenticated' = authenticated]_vars
\* the initiation returned no user code on a client that holds a token
C6_Witness ==
  /\ op = "authenticate_device_code" /\ ~ret
  /\ HasCall("initiate_device_flow", "no_user_code")
  /\ authenticated /\ access_token # None

\* site resolution returned a non-null identifier during the operation
SiteResolved ==
  \E k \in DOMAIN calls :
    /\ calls[k].f = "_get_site_id_from_url" /\ calls[k].kind = "return"
    /\ calls[k].val # None

\* C7: test_connection returns True if and only if the client ends up
\* authenticated and site resolution returned a non-null identifier; it
\* never raises.
C7_TestConnection ==
  op = "test_connection" =>
    /\ ~raised
    /\ ret <=> (authenticated /\ SiteResolved)
\* authenticate failed, the device-code fallback succeeded, the site resolved
C7_Witness ==
  /\ op = "test_connection" /\ ret
  /\ ReturnedIn(calls, "authenticate", FALSE)
  /\ ReturnedIn(calls, "authenticate_device_code", TRUE)

\* C8 as stated: when authenticate returns False, test_connection returns
\* False without attempting site resolution.
C8_AuthenticateFalseNoLookup ==
  (op = "test_connection" /\ ReturnedIn(calls, "authenticate", FALSE))
    => (~ret /\ ~Asked("requests.get site"))
\* C8 amended: when authenticate returns False and the device-code fallback
\* returns False too, test_connection returns False without attempting
\* site resolution.
C8_BothFalseNoLookup ==
  (op = "test_connection" /\ ReturnedIn(calls, "authenticate", FALSE)
     /\ ReturnedIn(calls, "authenticate_device_code", FALSE))
    => (~ret /\ ~Asked("requests.get site") /\ ~Asked("_get_site_id_from_url"))
\* both flows were tried and failed
C8_Witness ==
  /\ op = "test_connection" /\ ~ret
  /\ HasCall("acquire_token_interactive", "error")
  /\ HasCall("acquire_token_by_device_flow", "error")
  /\ ReturnedIn(calls, "authenticate_device_code", FALSE)

\* C9: _get_site_id_from_url issues exactly one lookup request, returns the
\* identifier of the response on status 200, and None on any other status
\* or on a transport error, without raising.
C9_SiteLookup ==
  op = "_get_site_id_from_url" =>
    LET response == sites[GraphUrl(arg)]
    IN /\ Cardinality({k \in DOMAIN calls : calls[k].f = "requests.get site"}) = 1
       /\ ~raised
       /\ (response.kind = "response" /\ response.status = HTTP_OK)
            => site_id = response.id
       /\ (response.kind = "raise" \/ response.status # HTTP_OK)
            => site_id = None
\* a lookup that the directory service answered with an error status
C9_Witness ==
  /\ op = "_get_site_id_from_url"
  /\ HasCall("requests.get site", "response")
  /\ sites[GraphUrl(arg)].status \in ErrorStatuses
  /\ site_id = None

\* C10: a lookup changes no client state, and a lookup that directly
\* follows a lookup of the same URL returns the same identifier.
C10_LookupIdempotent ==
  [][op' = "_get_site_id_from_url" =>
       /\ access_token' = access_token
       /\ authenticated' = authenticated
       /\ site_url' = site_url
       /\ (op = "_get_site_id_from_url" /\ arg' = arg) => site_id' = site_id]_vars
\* the second of two lookups of one URL, which resolved
C10_Witness ==
  /\ op = "_get_site_id_from_url" /\ repeated
  /\ site_id # None

\* C11: get_excel_files never returns an entry for an item whose name does
\* not end in .xlsx, .xlsm or .xls (in any case of letters), nor for an item
\* that is a folder: every descriptor of the returned list is the descriptor
\* of an item of the listing that carries a file facet and has such a name.
C11_OnlyExcelFiles ==
  (op = "get_excel_files" /\ ~raised) =>
    \A k \in DOMAIN files :
      /\ HasExcelSuffix(files[k].name)
      /\ \E j \in DOMAIN drive :
           /\ drive[j].id = files[k].id
           /\ drive[j].name = files[k].name
           /\ drive[j].file # "absent"
\* a listing of an Excel file and a folder with an Excel name: one entry
C11_Witness ==
  /\ op = "get_excel_files" /\ ~raised
  /\ Len(files) = 1
  /\ \E j \in DOMAIN drive :
       drive[j].file = "absent" /\ HasExcelSuffix(drive[j].name)

\* C12: get_excel_files returns exactly one descriptor for every item of the
\* listing that is a file with an Excel extension, in the order of the
\* listing.  An item is a file when it carries the file facet, whatever the
\* facet holds.
C12_OneDescriptorPerExcelFile ==
  (op = "get_excel_files" /\ ~raised) =>
    LET ExcelFile(item) == item.file # "absent" /\ HasExcelSuffix(item.name)
        sel == SelectSeq(drive, ExcelFile)
    IN /\ Len(files) = Len(sel)
       /\ \A k \in DOMAIN files :
            files[k].name = sel[k].name /\ files[k].id = sel[k].id
\* the listing report.pdf, Q1.xlsx, Q2.XLSM with non-empty file facets gives
\* Q1.xlsx then Q2.XLSM
C12_Scenario ==
  (op = "get_excel_files" /\ ~raised /\ drive = <<ReportPdf, Q1Xlsx, Q2Xlsm>>) =>
    files = <<Descriptor(Q1Xlsx), Descriptor(Q2Xlsm)>>

\* the calls of get_excel_files that ask for the children of a folder
ChildrenRequests == { "requests.get folder children", "requests.get root children" }

\* C13: get_excel_files raises to the caller, returning no list, whenever the
\* automatic authentication fails (with "Authentication failed", no site or
\* listing request and no device-code flow), the site id is None, or the
\* listing request fails in transport or answers with a status other than
\* 200; it returns a list only when the client is authenticated, the site id
\* was resolved and the listing request answered 200.
C13_RaisesUnlessAllSucceed ==
  (op = "get_excel_files") =>
    LET authFailed == ReturnedIn(calls, "authenticate", FALSE)
        siteNull == \E k \in DOMAIN calls :
                      calls[k] = Call("_get_site_id_from_url", "return", None)
        listingFailed == \E k \in DOMAIN calls :
                           /\ calls[k].f \in ChildrenRequests
                           /\ (calls[k].kind = "raise" \/ calls[k].val # HTTP_OK)
        listed == \E k \in DOMAIN calls :
                    /\ calls[k].f \in ChildrenRequests
                    /\ calls[k].kind = "response" /\ calls[k].val = HTTP_OK
        asksChildren == \E f \in ChildrenRequests : Asked(f)
    IN /\ authFailed =>
            /\ raised /\ message = Message("Authentication failed", None)
            /\ ~Asked("requests.get site") /\ ~asksChildren
            /\ ~Asked("initiate_device_flow")
            /\ ~Asked("acquire_token_by_device_flow")
       /\ siteNull => raised /\ ~asksChildren
       /\ listingFailed => raised
       /\ raised => files = <<>>
       /\ ~raised => authenticated /\ SiteResolved /\ listed
\* the automatic authentication failed and the call raised
C13_Witness ==
  /\ op = "get_excel_files" /\ raised
  /\ ReturnedIn(calls, "authenticate", FALSE)
  /\ ~authenticated

\* C14: download_file returns True only when the download request answered
\* 200, and then the file at local_path holds exactly the body of that
\* response, whatever the path held before.
C14_DownloadWritesBody ==
  (op = "download_file" /\ ret) =>
    /\ \E k \in DOMAIN calls :
         /\ calls[k] = Call("requests.get download", "response", HTTP_OK)
    /\ \E k \in DOMAIN calls :
         /\ calls[k].f = "response.content"
         /\ calls[k].val # None
         /\ local_file = calls[k].val
\* a download onto a path that held another content
C14_Witness ==
  /\ op = "download_file" /\ ret
  /\ \E k \in DOMAIN calls :
       /\ calls[k].f = "open wb"
       /\ calls[k].val # None
       /\ calls[k].val # local_file

\* C15: on a client that is not authenticated, or for a descriptor without a
\* (non-empty) download URL, download_file returns False without raising,
\* issues no request, and leaves the local path as it was.
C15_DownloadPrecondition ==
  [][(/\ op' = "download_file"
      /\ \/ ~authenticated
         \/ \E k \in DOMAIN calls' :
              calls'[k] = Call("file_info.get download_url", "value", None))
     => (/\ ~ret' /\ ~raised'
         /\ ~AskedIn(calls', "requests.get download")
         /\ ~AskedIn(calls', "open wb")
         /\ local_file' = local_file)]_vars
\* an authenticated client given a descriptor without download URL, the
\* local path holding a file
C15_Witness ==
  /\ op = "download_file" /\ authenticated /\ ~ret
  /\ calls = <<Call("file_info.get download_url", "value", None)>>
  /\ local_file # None

\* the calls of upload_file that put the content
UploadRequests == { "requests.put folder content", "requests.put root content" }

\* C16: upload_file returns True exactly when the PUT request answered 200
\* or 201; in every other case (client not authenticated, site id None,
\* local file that cannot be opened, another status, transport exception) it
\* returns False and never raises; no PUT is issued on a client that is not
\* authenticated or when the site id is None.
C16_UploadTrueIffPutSucceeded ==
  (op = "upload_file") =>
    LET put == \E f \in UploadRequests : Asked(f)
    IN /\ ~raised
       /\ ret <=> \E k \in DOMAIN calls :
                    /\ calls[k].f \in UploadRequests
                    /\ calls[k].kind = "response"
                    /\ calls[k].val \in {HTTP_OK, HTTP_CREATED}
       /\ ~authenticated => ~ret /\ calls = <<>>
       /\ (\E k \in DOMAIN calls : calls[k] = Call("_get_site_id_from_url", "return", None))
            => ~ret /\ ~put
       /\ HasCall("open rb", "raise") => ~ret /\ ~put
\* an upload answered 201 Created
C16_Witness ==
  /\ op = "upload_file" /\ ret
  /\ \E k \in DOMAIN calls :
       calls[k].f \in UploadRequests /\ calls[k].val = HTTP_CREATED

\* C17: calling listing, upload or download on a client that is not
\* authenticated results in an explicit failure raised to the caller with a
\* fixed message.
C17_UnauthenticatedRaises ==
  (op \in {"get_excel_files", "upload_file", "download_file"} /\ ~authenticated) =>
    raised /\ message.text # ""
\* C17, amended: the listing authenticates on its own and raises
\* "Authentication failed" to the caller when that fails; upload and
\* download raise "Not authenticated" inside their try block only, so the
\* caller gets the return value False, no exception, and no request is made.
C17_ListingRaisesTransfersReturnFalse ==
  /\ (op = "get_excel_files" /\ ~authenticated) =>
       /\ raised /\ message = Message("Authentication failed", None)
       /\ ReturnedIn(calls, "authenticate", FALSE)
  /\ (op \in {"upload_file", "download_file"} /\ ~authenticated) =>
       ~raised /\ message = NoMessage /\ ~ret /\ calls = <<>>
\* an upload on a client that is not authenticated: False, no exception
C17_Witness ==
  /\ op = "upload_file" /\ ~authenticated /\ ~ret /\ ~raised

\* C18: authenticate, authenticate_device_code and test_connection never
\* raise to the caller: whatever the SDK calls and the site lookup give (a
\* token, an error result, None, an exception), the call returns, and it
\* returns False when no token was acquired or the site was not resolved.
C18_NeverRaise ==
  LET noToken == ~\E k \in DOMAIN calls : calls[k].kind = "token"
  IN /\ (op \in {"authenticate", "authenticate_device_code", "test_connection"}) =>
          ~raised /\ message = NoMessage
     /\ (op \in {"authenticate", "authenticate_device_code"} /\ noToken) => ~ret
     /\ (op = "test_connection" /\ (~authenticated \/ ~SiteResolved)) => ~ret
\* the token request of the device-code flow raised
C18_Witness ==
  /\ op = "authenticate_device_code"
  /\ HasCall("acquire_token_by_device_flow", "raise")
  /\ ~ret /\ ~raised

\* C19: after set and update calls and a save() that returned True, a new
\* SettingsManager constructed on the same config directory holds settings
\* equal, field for field, to those of the manager that saved.
C19_SaveLoadRoundTrip ==
  [][(op = "save" /\ ret /\ op' = "SettingsManager")
     => (~raised' /\ \A k \in Fields : settings'[k] = settings[k])]_vars
\* a new manager that loaded what set and update had changed: a string, a
\* number, and a position that had been None
C19_Witness ==
  /\ op = "SettingsManager" /\ ~raised
  /\ settings["team_url"] = PyStr("https://a")
  /\ settings["window_width"] = PyInt(1024)
  /\ settings["window_x"] = PyInt(100)
  /\ settings["window_y"] = PyNone
  /\ config_file = JsonDump(to_dict(settings))

\* C20: when settings.json is missing, or exists but does not hold settings
\* (not JSON, not UTF-8 text, or a JSON document that is not an object),
\* constructing a SettingsManager or calling load() does not raise and
\* load() returns False; every setting of a manager constructed then, and
\* every setting after load() found a file it could not read, holds its
\* default value.
C20_MissingOrCorruptGivesDefaults ==
  (op \in {"SettingsManager", "load"} /\ config_file.kind # "object") =>
    /\ ~raised
    /\ ~ret
    /\ (op = "SettingsManager" \/ config_file.kind # "absent") =>
         \A k \in Fields : settings[k] = Defaults[k]

\* C21: set(key, value) on a known setting makes get(key) return value and
\* leaves every other setting as it was; set on a key that is no setting
\* raises AttributeError and changes no setting; get on a key that is no
\* setting returns the default it was given.
C21_SetGet ==
  [][(op' = "set") =>
     LET key == input'[1]
         value == input'[2]
         default == PyStr("default")
     IN IF key \in Fields
        THEN /\ ~raised'
             /\ get(settings', key, default) = value
             /\ \A k \in Fields \ {key} : settings'[k] = settings[k]
        ELSE /\ raised'
             /\ settings' = settings
             /\ get(settings', key, default) = default]_vars

C23_ExitSaves ==
  [][(op' = "__exit__" /\ input'[2] = "none") =>
       LET later == SettingsManager(AppSettings, config_file', backup_file')
       IN /\ \E b \in BOOLEAN : calls' = <<Returned("save", b)>>
          /\ raised' = input'[1]
          /\ ~later.raised
          /\ \A k \in Fields : later.settings[k] = settings'[k]]_vars

\* an entry of the list of recent connections
Entry(url, folder) == [url |-> url, folder |-> folder, last_used |-> PyStr("current")]

\* C24: get_recent_connections returns the empty list exactly when team_url
\* is empty and otherwise exactly one entry, whose url and folder are the
\* current team_url and document_folder and whose last_used is 'current';
\* after add_recent_connection(url, folder) that entry is (url, folder).
C24_RecentConnections ==
  [][/\ (op' = "get_recent_connections") =>
          /\ (recent' = <<>>) <=> (settings["team_url"] = PyStr(""))
          /\ (recent' # <<>>) =>
                recent' = << Entry(settings["team_url"], settings["document_folder"]) >>
     /\ (op = "add_recent_connection" /\ op' = "get_recent_connections") =>
          /\ ~raised
          /\ (input[1] # PyStr("")) => recent' = << Entry(input[1], input[2]) >>]_vars
C24_Witness ==
  /\ op = "get_recent_connections"
  /\ recent = << Entry(PyStr("https://b"), PyStr("/docs")) >>
  /\ settings["team_url"] = PyStr("https://b")

\* the calls of a log that belong to an authentication flow
AuthCalls(log) ==
  { k \in DOMAIN log : log[k].f \notin {"requests.get site", "_get_site_id_from_url"} }

\* C25: test_connection invokes no authentication flow when the client is
\* already authenticated; otherwise it calls authenticate first, and
\* authenticate_device_code exactly when authenticate returned False; the
\* site is resolved only after one of the two returned True or when the
\* client was authenticated already.
C25_AuthBeforeResolve ==
  [][(op' = "test_connection") =>
       LET log == calls'
           auth == { k \in DOMAIN log : log[k].f = "authenticate" }
           device == { k \in DOMAIN log : log[k].f = "authenticate_device_code" }
           lookup == { k \in DOMAIN log : log[k].f = "requests.get site" }
       IN /\ authenticated => AuthCalls(log) = {}
          /\ ~authenticated =>
                /\ Cardinality(auth) = 1
                /\ \A k \in AuthCalls(log), a \in auth :
                      k < a => log[k].f \in {"get_accounts", "acquire_token_silent",
                                             "acquire_token_interactive"}
                /\ (device # {}) <=> ReturnedIn(log, "authenticate", FALSE)
                /\ \A a \in auth, d \in device : a < d
                /\ Cardinality(device) <= 1
          /\ \A k \in lookup :
                \/ authenticated
                \/ \E j \in 1..(k - 1) :
                     log[j] \in { Returned("authenticate", TRUE),
                                  Returned("authenticate_device_code", TRUE) }]_vars
C25_Witness ==
  /\ op = "test_connection"
  /\ ReturnedIn(calls, "authenticate", FALSE)
  /\ ReturnedIn(calls, "authenticate_device_code", TRUE)
  /\ HasCallIn(calls, "requests.get site", "response")
  /\ ret

\* C26: when save() fails at any step (removing the old backup, renaming
\* the file, writing), settings.json has afterwards the content it had
\* before the call, never older or partial content, and save() does not
\* raise.
C26_FailedSaveKeepsFile ==
  [][(op' = "save" /\ ~ret') => (config_file' = config_file /\ ~raised')]_vars

\* a log in which a token acquisition failed
AcquisitionFailed(log) ==
  \E k \in DOMAIN log :
    /\ log[k].f \in {"acquire_token_silent", "acquire_token_interactive",
                     "acquire_token_by_device_flow"}
    /\ log[k].kind \in {"error", "raise"}

\* C27: when a connection test fails because of AADSTS53003 or AADSTS50058,
\* the window's Test Connection action ends with a status message that
\* suggests Device Auth.
C27_SuggestsDeviceAuth ==
  [][(/\ op' = "gui.test_connection"
      /\ ~ret'
      /\ AcquisitionFailed(calls')
      /\ input'[1] \in {"AADSTS53003", "AADSTS50058"})
     => status_label' \in {BlockedTryDeviceAuth, SilentFailedTryDeviceAuth}]_vars

\* C28: the window drives the client only through operations the client
\* provides and renders what they return: Browse Files with a non-empty team
\* URL, an authenticated client and a listing that succeeds ends with the
\* table of files in the files area and not with an error status.
C28_BrowseShowsFiles ==
  [][(/\ op' = "gui.browse_files"
      /\ arg' # EmptyUrl
      /\ authenticated
      /\ \E r \in get_excel_files(Client, arg', <<>>, sites, drive) : ~r.raised)
     => /\ \A k \in DOMAIN calls' : calls'[k].f \in ClientOperations
        /\ status_label' \in {FoundItems, NoItemsFound}
        /\ files_text' \in {TableHeader \o TableRows(drive), NoItemsFound}]_vars

\* C29: in every reachable state authenticated = True implies that
\* access_token is a token, not None, and a token is stored only when an
\* acquisition flow of the same call answered with it; a newly constructed
\* client has authenticated False, access_token None and site_url None.
C29_AuthenticatedHasToken ==
  /\ [](authenticated => access_token \in Tokens)
  /\ [](op = "__init__" => (~authenticated /\ access_token = None /\ site_url = NoUrl))
  /\ [][(access_token' # access_token) =>
          \E k \in DOMAIN calls' :
            /\ calls'[k].f \in {"acquire_token_silent", "acquire_token_interactive",
                                "acquire_token_by_device_flow"}
            /\ calls'[k].kind = "token"
            /\ calls'[k].val = access_token']_vars
C29_Witness ==
  /\ authenticated
  /\ access_token = MaxToken
  /\ op = "test_connection"
  /\ HasCall("acquire_token_by_device_flow", "token")

\* C30: after any sequence of download_and_open_excel_file and cleanup
\* calls, whenever is_file_open() is True, get_file_info() is the descriptor
\* of the file the open workbook was loaded from;
\* download_and_open_excel_file returns True only if the client's download
\* returned True and the workbook opened; after cleanup is_file_open() is
\* False.
C30_OpenFileInfo ==
  /\ [](is_file_open(Manager) => get_file_info(Manager) = current_workbook)
  /\ [][(op' = "download_and_open_excel_file" /\ ret') =>
          /\ ReturnedIn(calls', "download_file", TRUE)
          /\ HasCallIn(calls', "load_workbook", "ok")
          /\ is_file_open(Manager')]_vars
  /\ [][(op' = "cleanup") => ~is_file_open(Manager')]_vars

====
